---- MODULE Spec2Model ----
(***************************************************************************)
(* Model of dimod/generators/anti_crossing.py: the two generators          *)
(* anti_crossing_clique and anti_crossing_loops, executed one call of the  *)
(* binary-quadratic-model API at a time.                                   *)
(***************************************************************************)
EXTENDS Integers, FiniteSets, Sequences, TLC

\* Range of the num_variables argument explored by the model.
MaxNegative == 3
MaxNumVariables == 16

VARIABLES fn, num_variables, pc, bqm, hf, n, m

vars == <<fn, num_variables, pc, bqm, hf, n, m>>

-----------------------------------------------------------------------------
(* The binary quadratic model the generators build.  linear maps each      *)
(* variable of the model to its bias, quadratic maps each unordered pair   *)
(* {u, v} that interacts to its bias.                                      *)

NoEdges == [e \in {} |-> 0]
NoNodes == [v \in {} |-> 0]

\* No model object exists yet.
None == [vartype |-> "None", linear |-> NoNodes, quadratic |-> NoEdges]

\* The value an API call yields when it raises instead of returning.
ValueError == [vartype |-> "ValueError", linear |-> NoNodes, quadratic |-> NoEdges]

\* BinaryQuadraticModel(vartype): an empty model.
BinaryQuadraticModel(vartype) ==
    [vartype |-> vartype, linear |-> NoNodes, quadratic |-> NoEdges]

\* Variables named by an interaction enter the model with bias 0.
WithVariable(lin, v) == IF v \in DOMAIN lin THEN lin ELSE lin @@ (v :> 0)

add_linear(b, v, bias) ==
    [b EXCEPT !.linear = [WithVariable(@, v) EXCEPT ![v] = @ + bias]]

set_linear(b, v, bias) ==
    [b EXCEPT !.linear = [WithVariable(@, v) EXCEPT ![v] = bias]]

add_quadratic(b, u, v, bias) ==
    IF u = v THEN ValueError
    ELSE [b EXCEPT !.linear = WithVariable(WithVariable(@, u), v),
                   !.quadratic = IF {u, v} \in DOMAIN @
                                 THEN [@ EXCEPT ![{u, v}] = @ + bias]
                                 ELSE @ @@ ({u, v} :> bias)]

set_quadratic(b, u, v, bias) ==
    IF u = v THEN ValueError
    ELSE [b EXCEPT !.linear = WithVariable(WithVariable(@, u), v),
                   !.quadratic = IF {u, v} \in DOMAIN @
                                 THEN [@ EXCEPT ![{u, v}] = bias]
                                 ELSE @ @@ ({u, v} :> bias)]

RECURSIVE SumOver(_, _)
SumOver(f, S) ==
    IF S = {} THEN 0
    ELSE LET x == CHOOSE y \in S : TRUE IN f[x] + SumOver(f, S \ {x})

\* Energy of the sample s (a value in {-1, +1} for every variable).
Energy(b, s) ==
    LET lterm == [v \in DOMAIN b.linear |-> b.linear[v] * s[v]]
        qterm == [e \in DOMAIN b.quadratic |->
                    LET u == CHOOSE x \in e : TRUE
                        v == CHOOSE y \in e : y # u
                    IN b.quadratic[e] * s[u] * s[v]]
    IN SumOver(lterm, DOMAIN lterm) + SumOver(qterm, DOMAIN qterm)

\* int(a / d) for d > 0: true division, then truncation toward zero.
IntDiv(a, d) == IF a >= 0 THEN a \div d ELSE -((-a) \div d)

-----------------------------------------------------------------------------
(* One API call that either raises or yields the updated model.            *)
Apply(r, next) ==
    IF r = ValueError
    THEN pc' = "ValueError" /\ UNCHANGED bqm
    ELSE pc' = next /\ bqm' = r

-----------------------------------------------------------------------------
(* anti_crossing_clique                                                    *)

\* Variant: the parity test is missing.
CliqueInvalidNoParity(nv) == nv < 6

\* if num_variables % 2 or num_variables < 6
CliqueInvalid(nv) == nv % 2 # 0 \/ nv < 6

CliqueRaise ==
    /\ fn = "anti_crossing_clique" /\ pc = "call"
    /\ CliqueInvalid(num_variables)
    /\ pc' = "ValueError"
    /\ UNCHANGED <<fn, num_variables, bqm, hf, n, m>>

CliqueNew ==
    /\ fn = "anti_crossing_clique" /\ pc = "call"
    /\ ~CliqueInvalid(num_variables)
    /\ bqm' = BinaryQuadraticModel("SPIN")
    /\ hf' = IntDiv(num_variables, 2)
    /\ n' = 0
    /\ pc' = "for_n"
    /\ UNCHANGED <<fn, num_variables, m>>

\* Variant: the inner range starts at n itself.
CliqueInnerStartAtN(k) == k

\* First value of range(n + 1, hf).
CliqueInnerStart(k) == k + 1

\* for n in range(hf)
CliqueForN ==
    /\ fn = "anti_crossing_clique" /\ pc = "for_n"
    /\ IF n < hf
       THEN pc' = "for_m" /\ m' = CliqueInnerStart(n)
       ELSE pc' = "override" /\ m' = m
    /\ UNCHANGED <<fn, num_variables, bqm, hf, n>>

\* Variant: the inner range runs one past the clique.
CliqueInnerCondInclusive(mm, h) == mm <= h

\* range(n + 1, hf) still has the value mm.
CliqueInnerCond(mm, h) == mm < h

\* for m in range(n + 1, hf): bqm.add_quadratic(n, m, -1)
CliqueForM ==
    /\ fn = "anti_crossing_clique" /\ pc = "for_m"
    /\ IF CliqueInnerCond(m, hf)
       THEN Apply(add_quadratic(bqm, n, m, -1), "for_m") /\ m' = m + 1
       ELSE pc' = "pendant" /\ UNCHANGED <<bqm, m>>
    /\ UNCHANGED <<fn, num_variables, hf, n>>

\* bqm.add_quadratic(n, n + hf, -1)
CliquePendant ==
    /\ fn = "anti_crossing_clique" /\ pc = "pendant"
    /\ Apply(add_quadratic(bqm, n, n + hf, -1), "linear_clique")
    /\ UNCHANGED <<fn, num_variables, hf, n, m>>

\* bqm.add_linear(n, 1)
CliqueLinearClique ==
    /\ fn = "anti_crossing_clique" /\ pc = "linear_clique"
    /\ bqm' = add_linear(bqm, n, 1)
    /\ pc' = "linear_pendant"
    /\ UNCHANGED <<fn, num_variables, hf, n, m>>

\* bqm.add_linear(n + hf, -1), end of the body of the loop over n
CliqueLinearPendant ==
    /\ fn = "anti_crossing_clique" /\ pc = "linear_pendant"
    /\ bqm' = add_linear(bqm, n + hf, -1)
    /\ n' = n + 1
    /\ pc' = "for_n"
    /\ UNCHANGED <<fn, num_variables, hf, m>>

\* Variant: the bias of variable 1 is accumulated instead of overwritten.
CliqueOverrideAccumulate(b) == add_linear(b, 1, 0)

\* Variant: the wrong variable is overwritten.
CliqueOverrideNode0(b) == set_linear(b, 0, 0)

CliqueOverride(b) == set_linear(b, 1, 0)

\* bqm.set_linear(1, 0); return bqm
CliqueReturn ==
    /\ fn = "anti_crossing_clique" /\ pc = "override"
    /\ bqm' = CliqueOverride(bqm)
    /\ pc' = "return"
    /\ UNCHANGED <<fn, num_variables, hf, n, m>>

-----------------------------------------------------------------------------
(* anti_crossing_loops                                                     *)

LoopsInvalid(nv) == nv % 2 # 0 \/ nv < 8

LoopsRaise ==
    /\ fn = "anti_crossing_loops" /\ pc = "call"
    /\ LoopsInvalid(num_variables)
    /\ pc' = "ValueError"
    /\ UNCHANGED <<fn, num_variables, bqm, hf, n, m>>

LoopsQuarter(nv) == IntDiv(nv, 4)

LoopsNew ==
    /\ fn = "anti_crossing_loops" /\ pc = "call"
    /\ ~LoopsInvalid(num_variables)
    /\ bqm' = BinaryQuadraticModel("SPIN")
    /\ hf' = LoopsQuarter(num_variables)
    /\ n' = 0
    /\ pc' = "for_n"
    /\ UNCHANGED <<fn, num_variables, m>>

\* Variant: the cross-links sit at the even positions.
LoopsCrossCondEven(k) == k % 2 = 0

LoopsCrossCond(k) == k % 2 = 1

\* for n in range(hf): if n % 2 == 1
LoopsForN ==
    /\ fn = "anti_crossing_loops" /\ pc = "for_n"
    /\ pc' = IF n < hf
             THEN (IF LoopsCrossCond(n) THEN "cross" ELSE "cycle0")
             ELSE "override0"
    /\ UNCHANGED <<fn, num_variables, bqm, hf, n, m>>

\* bqm.set_quadratic(n, n + hf, -1)
LoopsCross ==
    /\ fn = "anti_crossing_loops" /\ pc = "cross"
    /\ Apply(set_quadratic(bqm, n, n + hf, -1), "cycle0")
    /\ UNCHANGED <<fn, num_variables, hf, n, m>>

\* Variant: the cycle edge is accumulated instead of set.
LoopsCycleEdge0Accumulate(b, k, h) == add_quadratic(b, k, (k + 1) % h, -1)

LoopsCycleEdge0(b, k, h) == set_quadratic(b, k, (k + 1) % h, -1)

\* bqm.set_quadratic(n, (n + 1) % hf, -1)
LoopsCycle0 ==
    /\ fn = "anti_crossing_loops" /\ pc = "cycle0"
    /\ Apply(LoopsCycleEdge0(bqm, n, hf), "cycle1")
    /\ UNCHANGED <<fn, num_variables, hf, n, m>>

\* bqm.set_quadratic(n + hf, ((n + 1) % hf) + hf, -1)
LoopsCycle1 ==
    /\ fn = "anti_crossing_loops" /\ pc = "cycle1"
    /\ Apply(set_quadratic(bqm, n + hf, ((n + 1) % hf) + hf, -1), "decor0")
    /\ UNCHANGED <<fn, num_variables, hf, n, m>>

\* bqm.set_quadratic(n, n + 2 * hf, -1)
LoopsDecor0 ==
    /\ fn = "anti_crossing_loops" /\ pc = "decor0"
    /\ Apply(set_quadratic(bqm, n, n + 2 * hf, -1), "decor1")
    /\ UNCHANGED <<fn, num_variables, hf, n, m>>

\* bqm.set_quadratic(n + hf, n + 3 * hf, -1)
LoopsDecor1 ==
    /\ fn = "anti_crossing_loops" /\ pc = "decor1"
    /\ Apply(set_quadratic(bqm, n + hf, n + 3 * hf, -1), "linear0")
    /\ UNCHANGED <<fn, num_variables, hf, n, m>>

\* bqm.add_linear(n, 1)
LoopsLinear0 ==
    /\ fn = "anti_crossing_loops" /\ pc = "linear0"
    /\ bqm' = add_linear(bqm, n, 1)
    /\ pc' = "linear1"
    /\ UNCHANGED <<fn, num_variables, hf, n, m>>

\* bqm.add_linear(n + hf, 1)
LoopsLinear1 ==
    /\ fn = "anti_crossing_loops" /\ pc = "linear1"
    /\ bqm' = add_linear(bqm, n + hf, 1)
    /\ pc' = "linear2"
    /\ UNCHANGED <<fn, num_variables, hf, n, m>>

\* Variant: the decorating variable of the first loop gets the sign of the
\* loop variables.
LoopsDecorBias0Positive(b, k, h) == add_linear(b, k + 2 * h, 1)

LoopsDecorBias0(b, k, h) == add_linear(b, k + 2 * h, -1)

\* bqm.add_linear(n + 2 * hf, -1)
LoopsLinear2 ==
    /\ fn = "anti_crossing_loops" /\ pc = "linear2"
    /\ bqm' = LoopsDecorBias0(bqm, n, hf)
    /\ pc' = "linear3"
    /\ UNCHANGED <<fn, num_variables, hf, n, m>>

\* bqm.add_linear(n + 3 * hf, -1), end of the body of the loop over n
LoopsLinear3 ==
    /\ fn = "anti_crossing_loops" /\ pc = "linear3"
    /\ bqm' = add_linear(bqm, n + 3 * hf, -1)
    /\ n' = n + 1
    /\ pc' = "for_n"
    /\ UNCHANGED <<fn, num_variables, hf, m>>

LoopsOverrideSeam0(b) == set_linear(b, 0, 0)

\* bqm.set_linear(0, 0)
LoopsOverride0 ==
    /\ fn = "anti_crossing_loops" /\ pc = "override0"
    /\ bqm' = LoopsOverrideSeam0(bqm)
    /\ pc' = "override1"
    /\ UNCHANGED <<fn, num_variables, hf, n, m>>

\* Variant: the second overwrite forgets the offset of the second loop.
LoopsOverrideSeam1NoOffset(b, h) == set_linear(b, 0, 0)

LoopsOverrideSeam1(b, h) == set_linear(b, h, 0)

\* bqm.set_linear(hf, 0); return bqm
LoopsReturn ==
    /\ fn = "anti_crossing_loops" /\ pc = "override1"
    /\ bqm' = LoopsOverrideSeam1(bqm, hf)
    /\ pc' = "return"
    /\ UNCHANGED <<fn, num_variables, hf, n, m>>

-----------------------------------------------------------------------------

Init ==
    /\ fn \in {"anti_crossing_clique", "anti_crossing_loops"}
    /\ num_variables \in (-MaxNegative)..MaxNumVariables
    /\ pc = "call"
    /\ bqm = None
    /\ hf = 0 /\ n = 0 /\ m = 0

Next ==
    \/ CliqueRaise \/ CliqueNew \/ CliqueForN \/ CliqueForM \/ CliquePendant
    \/ CliqueLinearClique \/ CliqueLinearPendant \/ CliqueReturn
    \/ LoopsRaise \/ LoopsNew \/ LoopsForN \/ LoopsCross \/ LoopsCycle0
    \/ LoopsCycle1 \/ LoopsDecor0 \/ LoopsDecor1 \/ LoopsLinear0
    \/ LoopsLinear1 \/ LoopsLinear2 \/ LoopsLinear3 \/ LoopsOverride0
    \/ LoopsReturn

Spec == Init /\ [][Next]_vars

\* The interpreter keeps executing the call until it returns or raises.
FairSpec == Spec /\ WF_vars(Next)

-----------------------------------------------------------------------------
(* Properties                                                              *)

Clique == fn = "anti_crossing_clique"
Loops == fn = "anti_crossing_loops"
Returned == pc = "return"

Even(i) == i % 2 = 0
ValidCliqueInput == Even(num_variables) /\ num_variables >= 6
ValidLoopsInput == Even(num_variables) /\ num_variables >= 8
ValidInput == (Clique /\ ValidCliqueInput) \/ (Loops /\ ValidLoopsInput)

Nodes == DOMAIN bqm.linear
Edges == DOMAIN bqm.quadratic
Half == num_variables \div 2
Quarter == num_variables \div 4

Samples == [Nodes -> {-1, 1}]
AllUp == [v \in Nodes |-> 1]
AllDown == [v \in Nodes |-> -1]

UniqueGroundState ==
    LET e0 == Energy(bqm, AllUp)
    IN \A s \in Samples : s # AllUp => Energy(bqm, s) > e0

\* C1: in the model returned by anti_crossing_clique for a valid size, the
\* all +1 sample has strictly lower energy than every other sample.
C1_CliqueGroundState ==
    (Clique /\ Returned) => ValidCliqueInput /\ UniqueGroundState

C1_Witness ==
    /\ Clique /\ Returned /\ num_variables = 8
    /\ Energy(bqm, AllUp) = -11 /\ Energy(bqm, AllDown) = -9

\* C2: in the model returned by anti_crossing_loops for a valid size, the
\* all +1 sample over the variables of the model has strictly lower energy
\* than every other sample.
C2_LoopsGroundState ==
    (Loops /\ Returned) => ValidLoopsInput /\ UniqueGroundState

C2_Witness ==
    /\ Loops /\ Returned /\ num_variables = 12
    /\ Energy(bqm, AllUp) = -15 /\ Energy(bqm, AllDown) = -11

\* C3: on a size that is odd or below the minimum the call can only be at
\* its entry or have raised ValueError, and no model exists and no bias has
\* been written.
C3_InvalidRaisesFirst ==
    ~ValidInput => /\ pc \in {"call", "ValueError"}
                   /\ bqm = None
                   /\ Nodes = {} /\ Edges = {}

C3_Witness ==
    /\ Loops /\ num_variables = 6 /\ pc = "ValueError" /\ bqm = None

CliqueEdges ==
    {{a, b} : a, b \in 0..(Half - 1)} \ {{a} : a \in 0..(Half - 1)}
PendantEdges == {{a, a + Half} : a \in 0..(Half - 1)}

\* C4: the edges of the clique model are exactly the pairs inside [0, half)
\* and the pendant pairs {a, a + half}; there are C(half, 2) + half of them
\* and each has bias -1.
C4_CliqueEdges ==
    (Clique /\ Returned) =>
        /\ Edges = CliqueEdges \cup PendantEdges
        /\ 2 * Cardinality(Edges) = Half * (Half - 1) + 2 * Half
        /\ \A e \in Edges : bqm.quadratic[e] = -1

C4_Witness ==
    /\ Clique /\ Returned /\ num_variables = 10
    /\ Cardinality(Edges) = 15
    /\ bqm.quadratic[{3, 4}] = -1 /\ bqm.quadratic[{4, 9}] = -1

CliqueLinear ==
    [v \in 0..(num_variables - 1) |->
        IF v = 1 THEN 0 ELSE IF v < Half THEN 1 ELSE -1]

\* C5: the clique model has the variables 0..n-1 with bias +1 on [0, half)
\* except variable 1, bias 0 on variable 1 and bias -1 on [half, n); the
\* final overwrite changes nothing but the bias of variable 1.
C5_CliqueLinear ==
    [][Clique =>
        /\ (pc = "override" =>
                /\ bqm'.quadratic = bqm.quadratic
                /\ DOMAIN bqm'.linear = DOMAIN bqm.linear
                /\ \A v \in DOMAIN bqm.linear :
                        v # 1 => bqm'.linear[v] = bqm.linear[v])
        /\ (pc' = "return" => bqm'.linear = CliqueLinear)]_vars

C5_Witness ==
    /\ Clique /\ Returned /\ num_variables = 6
    /\ bqm.linear = (0 :> 1) @@ (1 :> 0) @@ (2 :> 1)
                     @@ (3 :> -1) @@ (4 :> -1) @@ (5 :> -1)

\* C6: for every accepted size the loops model has exactly the variables
\* 0..num_variables-1.
C6_LoopsVariableCount ==
    (Loops /\ Returned) =>
        /\ Nodes = 0..(num_variables - 1)
        /\ Cardinality(Nodes) = num_variables

LoopsLinear ==
    [v \in 0..(4 * Quarter - 1) |->
        IF v \in {0, Quarter} THEN 0 ELSE IF v < 2 * Quarter THEN 1 ELSE -1]

\* C7: the loops model has bias 0 on variables 0 and quarter, +1 on the
\* rest of [0, 2*quarter) and -1 on [2*quarter, 4*quarter); the two final
\* overwrites change nothing but the biases of variables 0 and quarter.
C7_LoopsLinear ==
    [][Loops =>
        /\ (pc \in {"override0", "override1"} =>
                /\ bqm'.quadratic = bqm.quadratic
                /\ DOMAIN bqm'.linear = DOMAIN bqm.linear
                /\ \A v \in DOMAIN bqm.linear :
                        v \notin {0, Quarter} => bqm'.linear[v] = bqm.linear[v])
        /\ (pc' = "return" => bqm'.linear = LoopsLinear)]_vars

C7_Witness ==
    /\ Loops /\ Returned /\ num_variables = 16
    /\ bqm.linear[0] = 0 /\ bqm.linear[4] = 0
    /\ \A v \in {1, 2, 3, 5, 6, 7} : bqm.linear[v] = 1
    /\ \A v \in 8..15 : bqm.linear[v] = -1

Positions == 0..(Quarter - 1)
Cycle0Edges == {{k, (k + 1) % Quarter} : k \in Positions}
Cycle1Edges == {{k + Quarter, ((k + 1) % Quarter) + Quarter} : k \in Positions}
CrossEdges == {{k, k + Quarter} : k \in {j \in Positions : j % 2 = 1}}
DecorEdges ==
    {{k, k + 2 * Quarter} : k \in Positions}
        \cup {{k + Quarter, k + 3 * Quarter} : k \in Positions}
Degree(v) == Cardinality({e \in Edges : v \in e})

\* C8: the edges of the loops model are exactly the two cycles, the
\* cross-links at the odd positions and one decorating edge per loop
\* variable; the decorating variables have degree 1.
C8_LoopsEdges ==
    (Loops /\ Returned) =>
        /\ Edges = Cycle0Edges \cup Cycle1Edges \cup CrossEdges \cup DecorEdges
        /\ \A k \in Positions : Even(k) => {k, k + Quarter} \notin Edges
        /\ \A v \in (2 * Quarter)..(4 * Quarter - 1) : Degree(v) = 1
        /\ \A e \in Edges : Cardinality(e) = 2

C8_Witness ==
    /\ Loops /\ Returned /\ num_variables = 16
    /\ {1, 5} \in Edges /\ {3, 7} \in Edges
    /\ {0, 4} \notin Edges /\ {2, 6} \notin Edges
    /\ {3, 0} \in Edges /\ {7, 4} \in Edges
    /\ Cardinality(Edges) = 18

\* C9: at every point of the loops construction every edge present has bias
\* -1, also after a pair has been written from both directions; for
\* num_variables = 8 the returned model has 7 edges.
C9_LoopsEdgeBias ==
    Loops =>
        /\ \A e \in Edges : bqm.quadratic[e] = -1
        /\ (Returned /\ num_variables = 8 => Cardinality(Edges) = 7)

C9_Witness ==
    /\ Loops /\ num_variables = 8 /\ n = 1 /\ pc = "cycle1"
    /\ bqm.quadratic[{0, 1}] = -1
    /\ Cardinality(Edges) = 5

\* C10: a call with a valid size never raises and runs to its return; a
\* ValueError only ever comes from the size check, before a model exists.
C10_ValidNeverFails ==
    /\ [](pc = "ValueError" => ~ValidInput /\ bqm = None)
    /\ [](ValidInput => <>Returned)

C10_Witness ==
    /\ Clique /\ Returned /\ num_variables = 12 /\ Cardinality(Edges) = 21

====
